---- MODULE Spec2Model ----
(***************************************************************************)
(* Payload traversal of a type 2 AppImage (squashfs payload).              *)
(*                                                                         *)
(* Two implementations live in the repository and both are modelled:       *)
(*   TraversalType2   (src/libappimage/core/impl/TraversalType2.cpp)       *)
(*   traversal_type_2 (src/libappimage/core/impl/traversal_type_2.cpp)     *)
(* The variable impl says which one a behaviour runs.  The squashfuse      *)
(* library and the host file system are the environment: the image is a    *)
(* value (an inode table), the library calls are operators over it.        *)
(*                                                                         *)
(* Text (paths, link targets) is a sequence of one-character strings.      *)
(***************************************************************************)
EXTENDS Integers, Sequences, FiniteSets, TLC

(***************************************************************************)
(* Bounds                                                                  *)
(***************************************************************************)
\* longest symlink chain / cycle of the generated images
MaxChain == 3

(***************************************************************************)
(* squashfs inode type tags, as the code's switch statements name them     *)
(***************************************************************************)
SQUASHFS_DIR_TYPE == 1
SQUASHFS_REG_TYPE == 2
SQUASHFS_SYMLINK_TYPE == 3
SQUASHFS_FIFO_TYPE == 6
SQUASHFS_LDIR_TYPE == 8
SQUASHFS_LREG_TYPE == 9
SQUASHFS_LSYMLINK_TYPE == 10

IsDirTag(t) == t = SQUASHFS_DIR_TYPE \/ t = SQUASHFS_LDIR_TYPE
IsRegTag(t) == t = SQUASHFS_REG_TYPE \/ t = SQUASHFS_LREG_TYPE
IsSymlinkTag(t) == t = SQUASHFS_SYMLINK_TYPE \/ t = SQUASHFS_LSYMLINK_TYPE

(***************************************************************************)
(* Text                                                                    *)
(***************************************************************************)
Slash == "/"
NUL == "NUL"
EmptyString == << >>

\* the C string held in a buffer: the characters before the first NUL
RECURSIVE CString(_)
CString(buf) ==
    IF buf = << >> \/ Head(buf) = NUL THEN << >>
    ELSE <<Head(buf)>> \o CString(Tail(buf))

\* std::string(first, last) over a buffer, offsets counted from 0
StringRange(buf, first, last) == SubSeq(buf, first + 1, last)

(***************************************************************************)
(* Images.  An image is [root |-> inode id, inodes |-> inode table,        *)
(* offset |-> payload offset, openable |-> sqfs_open_image succeeds].      *)
(* An inode is a record; bad names what is unreadable in it:               *)
(*   "inode" the inode itself, "link" its link text, "dir" its listing.    *)
(***************************************************************************)
NoEntries == << >>

DirInode(num, ents) ==
    [inode_type |-> SQUASHFS_DIR_TYPE, inode_number |-> num, mode |-> 493,
     text |-> EmptyString, entries |-> ents, data |-> 0, bad |-> "none"]
RegInode(num, perm, content) ==
    [inode_type |-> SQUASHFS_REG_TYPE, inode_number |-> num, mode |-> perm,
     text |-> EmptyString, entries |-> NoEntries, data |-> content, bad |-> "none"]
LinkInode(num, target) ==
    [inode_type |-> SQUASHFS_SYMLINK_TYPE, inode_number |-> num, mode |-> 511,
     text |-> target, entries |-> NoEntries, data |-> 0, bad |-> "none"]
OtherInode(num, tag) ==
    [inode_type |-> tag, inode_number |-> num, mode |-> 420,
     text |-> EmptyString, entries |-> NoEntries, data |-> 0, bad |-> "none"]

Dentry(n, t, i) == [name |-> n, type |-> t, inode |-> i]

\* the value of an sqfs_inode that no call has filled yet
GarbageInode ==
    [inode_type |-> 0, inode_number |-> 0, mode |-> 0,
     text |-> EmptyString, entries |-> NoEntries, data |-> 0, bad |-> "none"]

Names == <<"a", "b", "c", "d", "e", "f", "g", "h">>

\* root holding n symlinks Names[1] -> Names[2] -> ... ; the last one points
\* at lastText; a regular file Names[n+1] follows when withFile.
LinksImage(n, lastText, withFile) ==
    LET linkIno(i) == LinkInode(100 + i, IF i < n THEN <<Names[i + 1]>> ELSE lastText)
        linkEnts == [i \in 1..n |-> Dentry(<<Names[i]>>, SQUASHFS_SYMLINK_TYPE, i + 1)]
        fileEnt == Dentry(<<Names[n + 1]>>, SQUASHFS_REG_TYPE, n + 2)
        ents == IF withFile THEN Append(linkEnts, fileEnt) ELSE linkEnts
        links == [i \in 1..n |-> linkIno(i)]
    IN  [root |-> 1, offset |-> 1, openable |-> TRUE,
         inodes |-> <<DirInode(100, ents)>> \o links
                    \o (IF withFile THEN <<RegInode(100 + n + 1, 420, 7)>> ELSE << >>)]

\* a -> b -> ... -> regular file
ChainImage(n) == LinksImage(n, <<Names[n + 1]>>, TRUE)
\* a -> b -> ... -> a name that is not in the image
DanglingImage(n) == LinksImage(n, <<Names[n + 1]>>, FALSE)
\* t links leading into a cycle of c links (c = 1: a link to itself)
CycleImage(t, c) == LinksImage(t + c, <<Names[t + 1]>>, TRUE)

EmptyImage ==
    [root |-> 1, offset |-> 1, openable |-> TRUE, inodes |-> <<DirInode(100, NoEntries)>>]

\* d/ { a (regular, 0644), l -> "a", m -> "d/a" }
FixtureImage ==
    [root |-> 1, offset |-> 1, openable |-> TRUE,
     inodes |-> <<
        DirInode(100, <<Dentry(<<"d">>, SQUASHFS_DIR_TYPE, 2)>>),
        DirInode(101, <<Dentry(<<"a">>, SQUASHFS_REG_TYPE, 3),
                        Dentry(<<"l">>, SQUASHFS_SYMLINK_TYPE, 4),
                        Dentry(<<"m">>, SQUASHFS_SYMLINK_TYPE, 5)>>),
        RegInode(102, 420, 5),
        LinkInode(103, <<"a">>),
        LinkInode(104, <<"d", "/", "a">>) >>]

\* d/ { e/ (empty, 0700), f (fifo) }, g (regular, long form), k -> "d", s -> "k/f"
MixedImage ==
    [root |-> 1, offset |-> 1, openable |-> TRUE,
     inodes |-> <<
        DirInode(100, <<Dentry(<<"d">>, SQUASHFS_LDIR_TYPE, 2),
                        Dentry(<<"g">>, SQUASHFS_LREG_TYPE, 5),
                        Dentry(<<"k">>, SQUASHFS_LSYMLINK_TYPE, 6),
                        Dentry(<<"s">>, SQUASHFS_SYMLINK_TYPE, 7)>>),
        [DirInode(101, <<Dentry(<<"e">>, SQUASHFS_DIR_TYPE, 3),
                         Dentry(<<"f">>, SQUASHFS_FIFO_TYPE, 4)>>)
            EXCEPT !.inode_type = SQUASHFS_LDIR_TYPE],
        [DirInode(102, NoEntries) EXCEPT !.mode = 448],
        OtherInode(103, SQUASHFS_FIFO_TYPE),
        [RegInode(104, 493, 9) EXCEPT !.inode_type = SQUASHFS_LREG_TYPE],
        [LinkInode(105, <<"d">>) EXCEPT !.inode_type = SQUASHFS_LSYMLINK_TYPE],
        LinkInode(106, <<"k", "/", "f">>) >>]

\* an image with inode k made unreadable in the way what says
Corrupt(image, k, what) == [image EXCEPT !.inodes[k].bad = what]

CorruptImages ==
    { Corrupt(ChainImage(2), 3, "inode"),     \* second entry: inode unreadable
      Corrupt(ChainImage(2), 2, "inode"),     \* first entry: inode unreadable
      Corrupt(ChainImage(2), 3, "link"),      \* second entry: link text unreadable
      Corrupt(ChainImage(1), 2, "link"),      \* first entry: link text unreadable
      Corrupt(FixtureImage, 2, "dir"),        \* listing of d unreadable
      Corrupt(FixtureImage, 1, "dir"),        \* listing of the root unreadable
      Corrupt(FixtureImage, 1, "inode"),      \* root inode unreadable
      [ChainImage(1) EXCEPT !.openable = FALSE],
      [ChainImage(1) EXCEPT !.offset = -1] }

Images ==
    { ChainImage(n) : n \in 1..MaxChain }
    \cup { DanglingImage(n) : n \in 1..MaxChain }
    \cup { CycleImage(t, c) : t \in 0..1, c \in 1..MaxChain }
    \cup { EmptyImage, FixtureImage, MixedImage }
    \cup CorruptImages

(***************************************************************************)
(* The squashfuse calls the code makes, as operators over the image.       *)
(* SQFS_OK is "ok"; every other sqfs_err is "err".                         *)
(***************************************************************************)
SQFS_OK == "ok"
SQFS_ERR == "err"

InodeIds(image) == 1..Len(image.inodes)

\* file type bits that sqfs_inode_get adds to the stored permission bits
S_IFDIR == 16384
S_IFREG == 32768
S_IFLNK == 40960
S_IFIFO == 4096
TypeBits(tag) ==
    IF IsDirTag(tag) THEN S_IFDIR
    ELSE IF IsRegTag(tag) THEN S_IFREG
    ELSE IF IsSymlinkTag(tag) THEN S_IFLNK
    ELSE S_IFIFO

\* sqfs_inode_get(&fs, &inode, id): [err, inode]
sqfs_inode_get(image, id) ==
    IF id \notin InodeIds(image) \/ image.inodes[id].bad = "inode"
    THEN [err |-> SQFS_ERR, inode |-> GarbageInode]
    ELSE [err |-> SQFS_OK,
          inode |-> [image.inodes[id] EXCEPT
                        !.mode = @ + TypeBits(image.inodes[id].inode_type)]]

\* sqfs_inode_root(&fs)
sqfs_inode_root(image) == image.root

\* sqfs_readlink(&fs, inode, NULL, &size): the size query, [err, size]
sqfs_readlink_size(inode) ==
    IF ~IsSymlinkTag(inode.inode_type)
    THEN [err |-> SQFS_ERR, size |-> 0]
    ELSE [err |-> SQFS_OK, size |-> Len(inode.text) + 1]

\* sqfs_readlink(&fs, inode, buf, &size): fills a buffer of size characters
\* with the text, cut to size - 1, and a terminating NUL: [err, buf]
sqfs_readlink_fill(inode, size) ==
    IF ~IsSymlinkTag(inode.inode_type) \/ size < 1
    THEN [err |-> SQFS_ERR, buf |-> << >>]
    ELSE LET want == IF Len(inode.text) > size - 1 THEN size - 1 ELSE Len(inode.text)
         IN  [err |-> IF inode.bad = "link" THEN SQFS_ERR ELSE SQFS_OK,
              buf |-> SubSeq(inode.text, 1, want) \o <<NUL>>]

\* sqfs_dir_lookup: the entry called name in directory inode dir
sqfs_dir_lookup(dir, name) ==
    IF ~IsDirTag(dir.inode_type) \/ dir.bad = "dir"
    THEN [err |-> SQFS_ERR, found |-> FALSE, entry |-> Dentry(<< >>, 0, 0)]
    ELSE LET hits == {i \in 1..Len(dir.entries) : dir.entries[i].name = name}
         IN  IF hits = {}
             THEN [err |-> SQFS_OK, found |-> FALSE, entry |-> Dentry(<< >>, 0, 0)]
             ELSE [err |-> SQFS_OK, found |-> TRUE,
                   entry |-> dir.entries[CHOOSE i \in hits : \A j \in hits : i <= j]]

\* the leading slashes of a path skipped
RECURSIVE SkipSlashes(_)
SkipSlashes(path) ==
    IF path # << >> /\ Head(path) = Slash THEN SkipSlashes(Tail(path)) ELSE path

\* the length of the first component of a path
RECURSIVE ComponentSize(_)
ComponentSize(path) ==
    IF path = << >> \/ Head(path) = Slash THEN 0 ELSE 1 + ComponentSize(Tail(path))

\* sqfs_lookup_path(&fs, inode, path, &found): walks path one component at a
\* time from inode; inode is left at the last directory reached when a
\* component is missing: [err, found, inode]
RECURSIVE sqfs_lookup_path(_, _, _)
sqfs_lookup_path(image, inode, path) ==
    LET rest == SkipSlashes(path)
        size == ComponentSize(rest)
    IN  IF rest = << >> \/ size = 0
        THEN [err |-> SQFS_OK, found |-> TRUE, inode |-> inode]
        ELSE LET hit == sqfs_dir_lookup(inode, SubSeq(rest, 1, size))
                 got == sqfs_inode_get(image, hit.entry.inode)
             IN  IF hit.err # SQFS_OK
                 THEN [err |-> hit.err, found |-> FALSE, inode |-> inode]
                 ELSE IF ~hit.found
                 THEN [err |-> SQFS_OK, found |-> FALSE, inode |-> inode]
                 ELSE IF got.err # SQFS_OK
                 THEN [err |-> got.err, found |-> FALSE, inode |-> got.inode]
                 ELSE sqfs_lookup_path(image, got.inode,
                                       SubSeq(rest, size + 1, Len(rest)))

(***************************************************************************)
(* The depth-first cursor (sqfs_traverse).  A cursor is                    *)
(*   [state, stack, path, entry, dir_end];                                 *)
(* stack holds one [dir, pos] per open directory, path is the text the     *)
(* cursor reports, entry the last directory entry it read.                 *)
(***************************************************************************)
\* the last component of the cursor's path and the slash before it removed
RECURSIVE NameRemove(_)
NameRemove(path) ==
    IF path = << >> THEN << >>
    ELSE IF path[Len(path)] = Slash THEN SubSeq(path, 1, Len(path) - 1)
    ELSE IF Len(path) = 1 THEN << >>
    ELSE NameRemove(SubSeq(path, 1, Len(path) - 1))

NameAdd(path, name) == IF path = << >> THEN name ELSE path \o <<Slash>> \o name

\* sqfs_traverse_open(&trv, &fs, root): [err, trv]
sqfs_traverse_open(image, root, junk) ==
    LET got == sqfs_inode_get(image, root)
        fresh == [state |-> "GET_ENTRY", stack |-> <<[dir |-> root, pos |-> 0]>>,
                  path |-> EmptyString, entry |-> Dentry(<< >>, 0, junk),
                  dir_end |-> FALSE]
    IN  IF got.err # SQFS_OK \/ ~IsDirTag(got.inode.inode_type)
        THEN [err |-> SQFS_ERR, trv |-> [fresh EXCEPT !.state = "ERROR", !.stack = << >>]]
        ELSE [err |-> SQFS_OK, trv |-> fresh]

\* sqfs_traverse_next(&trv, &err): [ret, err, trv]
RECURSIVE sqfs_traverse_next(_, _)
sqfs_traverse_next(image, trv) ==
    LET failed == [ret |-> FALSE, err |-> SQFS_ERR, trv |-> [trv EXCEPT !.state = "ERROR"]]
    IN  CASE trv.state = "GET_ENTRY" ->
                LET level == trv.stack[Len(trv.stack)]
                    dir == image.inodes[level.dir]
                IN  IF dir.bad = "dir" THEN failed
                    ELSE IF level.pos < Len(dir.entries)
                    THEN [ret |-> TRUE, err |-> SQFS_OK,
                          trv |-> [trv EXCEPT
                                     !.stack[Len(trv.stack)].pos = level.pos + 1,
                                     !.entry = dir.entries[level.pos + 1],
                                     !.path = NameAdd(trv.path, dir.entries[level.pos + 1].name),
                                     !.state = "DESCEND"]]
                    ELSE sqfs_traverse_next(image, [trv EXCEPT !.state = "ASCEND"])
          [] trv.state = "NAME_REMOVE" ->
                sqfs_traverse_next(image,
                    [trv EXCEPT !.dir_end = FALSE, !.path = NameRemove(trv.path),
                                !.state = "GET_ENTRY"])
          [] trv.state = "ASCEND" ->
                LET popped == SubSeq(trv.stack, 1, Len(trv.stack) - 1)
                IN  IF popped # << >>
                    THEN [ret |-> TRUE, err |-> SQFS_OK,
                          trv |-> [trv EXCEPT !.stack = popped, !.dir_end = TRUE,
                                              !.state = "NAME_REMOVE"]]
                    ELSE [ret |-> FALSE, err |-> SQFS_OK,
                          trv |-> [trv EXCEPT !.stack = popped, !.state = "FINISHED"]]
          [] trv.state = "DESCEND" ->
                IF IsDirTag(trv.entry.type)
                THEN LET got == sqfs_inode_get(image, trv.entry.inode)
                     IN  IF got.err # SQFS_OK \/ ~IsDirTag(got.inode.inode_type)
                         THEN failed
                         ELSE sqfs_traverse_next(image,
                                [trv EXCEPT !.stack = Append(trv.stack,
                                                [dir |-> trv.entry.inode, pos |-> 0]),
                                            !.state = "GET_ENTRY"])
                ELSE sqfs_traverse_next(image, [trv EXCEPT !.state = "NAME_REMOVE"])
          [] trv.state = "FINISHED" -> [ret |-> FALSE, err |-> SQFS_OK, trv |-> trv]
          [] OTHER -> failed

(***************************************************************************)
(* The traversal object                                                    *)
(***************************************************************************)
VARIABLES
    impl,              \* which class the behaviour runs
    image,             \* the squashfs payload of the AppImage at path
    host,              \* the host file system: path -> node
    pc,                \* "start", "idle", "resolving", "dead" (constructor threw), "destroyed"
    fs,                \* the sqfs session: "unopened", "open", "destroyed"
    trvOpen,           \* the cursor: "unopened", "open", "closed"
    trv,               \* sqfs_traverse trv
    rootInodeId,
    completed,
    currentInode,      \* TraversalType2 only
    currentEntryType,  \* TraversalType2 only
    currentEntryPath,  \* TraversalType2 only
    currentEntryLink,  \* TraversalType2 only
    entryStreamBuf,    \* the stream read() returned: [live, src]
    frame,             \* locals of the call in progress (resolveSymlink's loop)
    ret,               \* outcome of the last call: [op, thrown, what, value]
    visits,            \* history: the entries next() made current, in order
    reads              \* history: the outcomes of read() on the current entry

vars == <<impl, image, host, pc, fs, trvOpen, trv, rootInodeId, completed,
          currentInode, currentEntryType, currentEntryPath, currentEntryLink,
          entryStreamBuf, frame, ret, visits, reads>>

TraversalType2 == "TraversalType2"
traversal_type_2 == "traversal_type_2"

\* PayloadEntryType
REGULAR == "REGULAR"
DIR == "DIR"
LINK == "LINK"
UNKNOWN == "UNKNOWN"

\* an sqfs_inode member or local that nothing has assigned yet
Indeterminate ==
    [inode_type |-> -1, inode_number |-> -1, mode |-> 0,
     text |-> EmptyString, entries |-> NoEntries, data |-> 0, bad |-> "indeterminate"]

NoThrow == "none"
Returned(o, v) == [op |-> o, thrown |-> NoThrow, what |-> "", value |-> v]
Threw(o, kind, msg) == [op |-> o, thrown |-> kind, what |-> msg, value |-> << >>]
\* the call o is in progress: it has no outcome yet
Pending(o) == [op |-> o, thrown |-> "pending", what |-> "", value |-> << >>]

\* the exception class each implementation throws for a failed library call
ReadErrorOf(i) == IF i = TraversalType2 THEN "IOError" ELSE "AppImageReadError"
\* what TraversalType2 throws when resolveSymlink finds a cycle
LoopErrorKind == "PayloadIteratorError"

NoFrame == [fn |-> "none"]
NoTrv == [state |-> "unopened", stack |-> << >>, path |-> EmptyString,
          entry |-> Dentry(<< >>, 0, 0), dir_end |-> FALSE]
\* entryStreamBuf owning no buffer: src is the inode number the buffer reads
NoStream == [live |-> 0, src |-> -1]

\* the outcome of a finished call, as the history keeps it
Outcome(r) == [thrown |-> r.thrown, value |-> r.value]
NoOutcome == [thrown |-> "", value |-> << >>]
\* reads: the outcome of the first and of the latest read() since the last
\* next(), and whether read() ran more than once (TraversalType2 only)
NoReads == [first |-> NoOutcome, last |-> NoOutcome, again |-> FALSE]

(***************************************************************************)
(* TraversalType2::readEntryType, readEntryName, readEntryLink, readInode  *)
(***************************************************************************)
\* readEntryType without the end-of-directory check (mutant)
readEntryType_no_dir_end(t) ==
    IF IsRegTag(t.entry.type) THEN REGULAR
    ELSE IF IsSymlinkTag(t.entry.type) THEN LINK
    ELSE IF IsDirTag(t.entry.type) THEN DIR
    ELSE UNKNOWN

readEntryType(t) ==
    IF t.dir_end THEN DIR
    ELSE IF IsRegTag(t.entry.type) THEN REGULAR
    ELSE IF IsSymlinkTag(t.entry.type) THEN LINK
    ELSE IF IsDirTag(t.entry.type) THEN DIR
    ELSE UNKNOWN

\* readEntryName giving the entry's own name, not the cursor's path (mutant)
readEntryName_basename(t) == t.entry.name

\* also traversal_type_2::getEntryName
readEntryName(t) == t.path

\* [err, link]: the two sqfs_readlink calls on currentInode, then
\* std::string(buf, buf + size - 1)
readEntryLink(inode) ==
    LET q == sqfs_readlink_size(inode)
        f == sqfs_readlink_fill(inode, q.size)
    IN  IF q.err # SQFS_OK \/ f.err # SQFS_OK
        THEN [err |-> SQFS_ERR, link |-> EmptyString]
        ELSE [err |-> SQFS_OK, link |-> StringRange(f.buf, 0, q.size - 1)]

\* the inode ids sqfs_inode_get may be handed for a cursor entry: the entry's
\* own id, or any id at all while the cursor has read no entry yet
EntryInodeIds(img, t) ==
    IF t.entry.inode = 0 /\ t.entry.name = << >> THEN InodeIds(img) \cup {0}
    ELSE {t.entry.inode}

readInode(img, id) == sqfs_inode_get(img, id)

(***************************************************************************)
(* next().  o is the object [trv, completed, currentInode,                 *)
(* currentEntryType, currentEntryPath, currentEntryLink]; the result is    *)
(* [o, thrown, what].  id is the inode id readInode fetches.               *)
(***************************************************************************)
Obj == [trv |-> trv, completed |-> completed, currentInode |-> currentInode,
        currentEntryType |-> currentEntryType, currentEntryPath |-> currentEntryPath,
        currentEntryLink |-> currentEntryLink]

TraversalType2_next(img, o) ==
    LET step == sqfs_traverse_next(img, o.trv)
        o1 == [o EXCEPT !.trv = step.trv,
                        !.completed = IF ~step.ret THEN TRUE ELSE o.completed]
        ino == readInode(img, step.trv.entry.inode)
        ty == readEntryType(step.trv)
        lnk == readEntryLink(ino.inode)
        o2 == [o1 EXCEPT !.currentInode = ino.inode, !.currentEntryType = ty,
                         !.currentEntryPath = readEntryName(step.trv)]
    IN  IF step.err # SQFS_OK
        THEN [o |-> o1, thrown |-> "IOError", what |-> "sqfs_traverse_next error"]
        ELSE IF o1.completed
        THEN [o |-> [o1 EXCEPT !.currentEntryType = UNKNOWN,
                               !.currentEntryPath = EmptyString,
                               !.currentEntryLink = EmptyString],
              thrown |-> NoThrow, what |-> ""]
        ELSE IF ino.err # SQFS_OK
        THEN [o |-> o1, thrown |-> "IOError", what |-> "sqfs_inode_get error"]
        ELSE IF ty # LINK
        THEN [o |-> [o2 EXCEPT !.currentEntryLink = EmptyString],
              thrown |-> NoThrow, what |-> ""]
        ELSE IF lnk.err # SQFS_OK
        THEN [o |-> o2, thrown |-> "IOError", what |-> "sqfs_readlink error"]
        ELSE [o |-> [o2 EXCEPT !.currentEntryLink = lnk.link],
              thrown |-> NoThrow, what |-> ""]

traversal_type_2_next(img, o) ==
    LET step == sqfs_traverse_next(img, o.trv)
        o1 == [o EXCEPT !.trv = step.trv,
                        !.completed = IF ~step.ret THEN TRUE ELSE o.completed]
    IN  IF step.err # SQFS_OK
        THEN [o |-> o1, thrown |-> "AppImageReadError", what |-> "sqfs_traverse_next error"]
        ELSE [o |-> o1, thrown |-> NoThrow, what |-> ""]

\* next() starting the traversal over when it is called once completed (mutant)
next_rewinding(i, img, o) ==
    LET again == [o EXCEPT !.completed = FALSE,
                           !.trv = sqfs_traverse_open(img, sqfs_inode_root(img), 0).trv]
    IN  IF i = TraversalType2
        THEN TraversalType2_next(img, IF o.completed THEN again ELSE o)
        ELSE traversal_type_2_next(img, IF o.completed THEN again ELSE o)

next(i, img, o) ==
    IF i = TraversalType2 THEN TraversalType2_next(img, o) ELSE traversal_type_2_next(img, o)

\* the entry a returning next() made current, added to the history
\* (TraversalType2 only: traversal_type_2 keeps no current entry)
Visited(log, r) ==
    IF r.thrown = NoThrow /\ ~r.o.completed
    THEN Append(log, [path |-> r.o.currentEntryPath, type |-> r.o.currentEntryType])
    ELSE log

SetObj(o) ==
    /\ trv' = o.trv
    /\ completed' = o.completed
    /\ currentInode' = o.currentInode
    /\ currentEntryType' = o.currentEntryType
    /\ currentEntryPath' = o.currentEntryPath
    /\ currentEntryLink' = o.currentEntryLink

(***************************************************************************)
(* Constructors                                                            *)
(***************************************************************************)
\* TraversalType2::TraversalType2(path): ends with next()
TraversalType2_ctor ==
    /\ pc = "start" /\ impl = TraversalType2
    /\ LET opened == sqfs_traverse_open(image, sqfs_inode_root(image), 0)
           r == next(TraversalType2, image, [Obj EXCEPT !.trv = opened.trv])
       IN  IF image.offset < 0
           THEN /\ ret' = Threw("open", "IOError", "get_elf_size error")
                /\ pc' = "dead"
                /\ UNCHANGED <<fs, trvOpen, rootInodeId, trv, completed, currentInode,
                               currentEntryType, currentEntryPath, currentEntryLink, visits>>
           ELSE IF ~image.openable
           THEN /\ ret' = Threw("open", "IOError", "sqfs_open_image error")
                /\ pc' = "dead"
                /\ UNCHANGED <<fs, trvOpen, rootInodeId, trv, completed, currentInode,
                               currentEntryType, currentEntryPath, currentEntryLink, visits>>
           ELSE IF opened.err # SQFS_OK
           THEN /\ ret' = Threw("open", "IOError", "sqfs_traverse_open error")
                /\ pc' = "dead"
                /\ fs' = "destroyed"
                /\ rootInodeId' = sqfs_inode_root(image)
                /\ UNCHANGED <<trvOpen, trv, completed, currentInode,
                               currentEntryType, currentEntryPath, currentEntryLink, visits>>
           ELSE /\ fs' = "open"
                /\ trvOpen' = "open"
                /\ rootInodeId' = sqfs_inode_root(image)
                /\ SetObj(r.o)
                /\ visits' = Visited(visits, r)
                /\ IF r.thrown # NoThrow
                   THEN ret' = Threw("open", r.thrown, r.what) /\ pc' = "dead"
                   ELSE ret' = Returned("open", << >>) /\ pc' = "idle"
    /\ UNCHANGED <<impl, image, host, entryStreamBuf, frame, reads>>

\* traversal_type_2::traversal_type_2(path): no first next()
traversal_type_2_ctor ==
    /\ pc = "start" /\ impl = traversal_type_2
    /\ LET opened == sqfs_traverse_open(image, sqfs_inode_root(image), 0)
       IN  IF image.offset < 0
           THEN /\ ret' = Threw("open", "AppImageReadError", "get_elf_size error")
                /\ pc' = "dead"
                /\ UNCHANGED <<fs, trvOpen, rootInodeId, trv>>
           ELSE IF ~image.openable
           THEN /\ ret' = Threw("open", "AppImageReadError", "sqfs_open_image error")
                /\ pc' = "dead"
                /\ UNCHANGED <<fs, trvOpen, rootInodeId, trv>>
           ELSE IF opened.err # SQFS_OK
           THEN /\ ret' = Threw("open", "AppImageReadError", "sqfs_traverse_open error")
                /\ pc' = "dead"
                /\ fs' = "open"
                /\ rootInodeId' = sqfs_inode_root(image)
                /\ UNCHANGED <<trvOpen, trv>>
           ELSE /\ fs' = "open"
                /\ trvOpen' = "open"
                /\ rootInodeId' = sqfs_inode_root(image)
                /\ trv' = opened.trv
                /\ ret' = Returned("open", << >>)
                /\ pc' = "idle"
    /\ UNCHANGED <<impl, image, host, completed, currentInode, currentEntryType,
                   currentEntryPath, currentEntryLink, entryStreamBuf, frame, visits, reads>>

\* ~TraversalType2 and ~traversal_type_2: the cursor, then the session
Destructor ==
    /\ pc = "idle"
    /\ pc' = "destroyed"
    /\ trvOpen' = "closed"
    /\ fs' = "destroyed"
    /\ ret' = Returned("destroy", <<"trv", "fs">>)
    /\ UNCHANGED <<impl, image, host, trv, rootInodeId, completed, currentInode,
                   currentEntryType, currentEntryPath, currentEntryLink,
                   entryStreamBuf, frame, visits, reads>>

(***************************************************************************)
(* next() and the accessors, called by the owner of the traversal          *)
(***************************************************************************)
Next_call ==
    /\ pc = "idle"
    /\ LET r == next(impl, image, Obj)
       IN  /\ SetObj(r.o)
           /\ visits' = IF impl = TraversalType2 THEN Visited(visits, r) ELSE visits
           /\ ret' = IF r.thrown # NoThrow THEN Threw("next", r.thrown, r.what)
                     ELSE Returned("next", << >>)
    /\ reads' = NoReads
    /\ UNCHANGED <<impl, image, host, pc, fs, trvOpen, rootInodeId, entryStreamBuf, frame>>

isCompleted == completed
\* TraversalType2::getEntryPath; traversal_type_2::getEntryName reads the cursor
getEntryPath == IF impl = TraversalType2 THEN currentEntryPath ELSE readEntryName(trv)
getEntryType == currentEntryType
getEntryLinkTarget == currentEntryLink

\* an accessor that checks the precondition "not completed" (mutant)
Accessor_checked(o, v) ==
    /\ pc = "idle"
    /\ ret' = IF completed THEN Threw(o, "logic_error", "traversal completed")
              ELSE Returned(o, v)
    /\ UNCHANGED <<impl, image, host, pc, fs, trvOpen, trv, rootInodeId, completed,
                   currentInode, currentEntryType, currentEntryPath, currentEntryLink,
                   entryStreamBuf, frame, visits, reads>>

Accessor(o, v) ==
    /\ pc = "idle"
    /\ ret' = Returned(o, v)
    /\ UNCHANGED <<impl, image, host, pc, fs, trvOpen, trv, rootInodeId, completed,
                   currentInode, currentEntryType, currentEntryPath, currentEntryLink,
                   entryStreamBuf, frame, visits, reads>>

IsCompleted_call == Accessor("isCompleted", isCompleted)
GetEntryPath_call == Accessor("getEntryPath", getEntryPath)
GetEntryType_call == impl = TraversalType2 /\ Accessor("getEntryType", getEntryType)
GetEntryLinkTarget_call == impl = TraversalType2 /\ Accessor("getEntryLinkTarget", getEntryLinkTarget)

(***************************************************************************)
(* read() and resolveSymlink.  The loop of resolveSymlink runs one         *)
(* iteration per step; frame holds its locals:                             *)
(*   fn            "read" or "extractFile": who called read()              *)
(*   inode         traversal_type_2's local inode (TraversalType2 resolves *)
(*                 the member currentInode in place)                       *)
(*   rootInode, inodesVisited                                              *)
(*   iterations    loop iterations done so far                             *)
(*   target, xinode  extract's argument and the inode it fetched           *)
(***************************************************************************)
\* the values an unassigned sqfs_inode may hold
InodeValues(img) ==
    {sqfs_inode_get(img, k).inode : k \in InodeIds(img)} \cup {GarbageInode}

\* the inode resolveSymlink works on
Resolving == IF impl = TraversalType2 THEN currentInode ELSE frame.inode

\* read() never releasing the buffer it replaces (mutant)
NewStream_leaking(old, inode) == [live |-> old.live + 1, src |-> inode.inode_number]

\* the stream of read(): a new buffer is allocated, then reset() deletes the
\* one entryStreamBuf owned, if it owned one; live counts the buffers alive
NewStream(old, inode) ==
    [live |-> (old.live + 1) - (IF old = NoStream THEN 0 ELSE 1),
     src |-> inode.inode_number]

\* a read() the caller made has finished: its outcome goes to the history
LogRead ==
    reads' = IF impl = TraversalType2 /\ ret'.op = "read" /\ ret'.thrown # "pending"
             THEN [first |-> IF reads.first.thrown = "" THEN Outcome(ret') ELSE reads.first,
                   last |-> Outcome(ret'),
                   again |-> reads.first.thrown # ""]
             ELSE reads

\* read() up to the loop of resolveSymlink; caller is "read" or "extract",
\* fn, target and xinode go to the frame
read_enter(caller, fn, target, xinode) ==
    LET root == sqfs_inode_get(image, rootInodeId)
    IN  IF impl = TraversalType2
        THEN \E cur \in (IF currentInode = Indeterminate THEN InodeValues(image)
                         ELSE {currentInode}) :
               IF root.err # SQFS_OK
               THEN /\ ret' = Threw(caller, "IOError", "symlink resolution error")
                    /\ UNCHANGED <<pc, frame, currentInode>>
               ELSE /\ pc' = "resolving"
                    /\ currentInode' = cur
                    /\ frame' = [fn |-> fn, inode |-> cur, rootInode |-> root.inode,
                                 inodesVisited |-> {cur.inode_number}, iterations |-> 0,
                                 target |-> target, xinode |-> xinode]
                    /\ ret' = Pending(caller)
        ELSE \E id \in EntryInodeIds(image, trv) :
               LET got == sqfs_inode_get(image, id)
               IN  IF got.err # SQFS_OK
                   THEN /\ ret' = Threw(caller, "AppImageReadError", "sqfs_inode_get error")
                        /\ UNCHANGED <<pc, frame, currentInode>>
                   ELSE IF root.err # SQFS_OK
                   THEN /\ ret' = Threw(caller, "AppImageReadError", "symlink resolution error")
                        /\ UNCHANGED <<pc, frame, currentInode>>
                   ELSE /\ pc' = "resolving"
                        /\ frame' = [fn |-> fn, inode |-> got.inode, rootInode |-> root.inode,
                                     inodesVisited |-> {got.inode.inode_number},
                                     iterations |-> 0, target |-> target, xinode |-> xinode]
                        /\ ret' = Pending(caller)
                        /\ UNCHANGED currentInode

Read_call ==
    /\ pc = "idle"
    /\ read_enter("read", "read", << >>, GarbageInode)
    /\ UNCHANGED <<impl, image, host, fs, trvOpen, trv, rootInodeId, completed,
                   currentEntryType, currentEntryPath, currentEntryLink,
                   entryStreamBuf, visits>>
    /\ LogRead

\* resolve_iteration without the cycle check (mutant)
resolve_iteration_unchecked(img, inode, rootInode, inodesVisited) ==
    LET q == sqfs_readlink_size(inode)
        f == sqfs_readlink_fill(inode, q.size)
        lk == sqfs_lookup_path(img, rootInode, CString(f.buf))
    IN  IF q.err # SQFS_OK \/ f.err # SQFS_OK
        THEN [outcome |-> "false", inode |-> inode, inodesVisited |-> inodesVisited]
        ELSE IF ~lk.found \/ lk.err # SQFS_OK
        THEN [outcome |-> "false", inode |-> lk.inode, inodesVisited |-> inodesVisited]
        ELSE [outcome |-> "again", inode |-> lk.inode,
              inodesVisited |-> inodesVisited \cup {lk.inode.inode_number}]

\* resolve_iteration looking the number up after inserting it (mutant)
resolve_iteration_insert_first(img, inode, rootInode, inodesVisited) ==
    LET q == sqfs_readlink_size(inode)
        f == sqfs_readlink_fill(inode, q.size)
        lk == sqfs_lookup_path(img, rootInode, CString(f.buf))
        grown == inodesVisited \cup {lk.inode.inode_number}
    IN  IF q.err # SQFS_OK \/ f.err # SQFS_OK
        THEN [outcome |-> "false", inode |-> inode, inodesVisited |-> inodesVisited]
        ELSE IF ~lk.found \/ lk.err # SQFS_OK
        THEN [outcome |-> "false", inode |-> lk.inode, inodesVisited |-> inodesVisited]
        ELSE IF lk.inode.inode_number \in grown
        THEN [outcome |-> "loop", inode |-> lk.inode, inodesVisited |-> grown]
        ELSE [outcome |-> "again", inode |-> lk.inode, inodesVisited |-> grown]

\* one iteration of the while loop: [outcome, inode, inodesVisited] with
\* outcome "again", "false" (return false) or "loop" (a cycle was found)
resolve_iteration(img, inode, rootInode, inodesVisited) ==
    LET q == sqfs_readlink_size(inode)
        f == sqfs_readlink_fill(inode, q.size)
        lk == sqfs_lookup_path(img, rootInode, CString(f.buf))
    IN  IF q.err # SQFS_OK \/ f.err # SQFS_OK
        THEN [outcome |-> "false", inode |-> inode, inodesVisited |-> inodesVisited]
        ELSE IF ~lk.found \/ lk.err # SQFS_OK
        THEN [outcome |-> "false", inode |-> lk.inode, inodesVisited |-> inodesVisited]
        ELSE IF lk.inode.inode_number \in inodesVisited
        THEN [outcome |-> "loop", inode |-> lk.inode, inodesVisited |-> inodesVisited]
        ELSE [outcome |-> "again", inode |-> lk.inode,
              inodesVisited |-> inodesVisited \cup {lk.inode.inode_number}]

\* the name the caller sees the failure under
CallerOp == IF frame.fn = "read" THEN "read" ELSE "extract"

Resolve_iterate ==
    /\ pc = "resolving"
    /\ IsSymlinkTag(Resolving.inode_type)
    /\ LET it == resolve_iteration(image, Resolving, frame.rootInode, frame.inodesVisited)
       IN  CASE it.outcome = "again" ->
                  /\ IF impl = TraversalType2
                     THEN currentInode' = it.inode
                          /\ frame' = [frame EXCEPT !.inodesVisited = it.inodesVisited,
                                                    !.iterations = @ + 1]
                     ELSE currentInode' = currentInode
                          /\ frame' = [frame EXCEPT !.inode = it.inode,
                                                    !.inodesVisited = it.inodesVisited,
                                                    !.iterations = @ + 1]
                  /\ UNCHANGED <<pc, ret>>
             [] it.outcome = "loop" /\ impl = TraversalType2 ->
                  /\ currentInode' = it.inode
                  /\ frame' = NoFrame
                  /\ pc' = "idle"
                  /\ ret' = Threw(CallerOp, LoopErrorKind, "Symlinks loop found ")
             [] OTHER ->
                  \* return false: read() throws
                  /\ currentInode' = IF impl = TraversalType2 THEN it.inode ELSE currentInode
                  /\ frame' = NoFrame
                  /\ pc' = "idle"
                  /\ ret' = Threw(CallerOp, ReadErrorOf(impl), "symlink resolution error")
    /\ UNCHANGED <<impl, image, host, fs, trvOpen, trv, rootInodeId, completed,
                   currentEntryType, currentEntryPath, currentEntryLink,
                   entryStreamBuf, visits>>
    /\ LogRead

(***************************************************************************)
(* The host file system: a node per path of a small universe, the current  *)
(* directory holding "o", "b" and "d", and "o" holding one-name entries.   *)
(* A node is [kind, mode, data, text], kind "none" when nothing is there.  *)
(***************************************************************************)
\* longest chain of host symlinks a path resolution follows
MaxHostLinks == 2

HostNames == {"a", "b", "c", "d", "e", "x", "y"}
HostPaths == {<<"o">>, <<"b">>, <<"d">>} \cup {<<"o", Slash, n>> : n \in HostNames}
Targets == {<<"o", Slash, "x">>}
NoPath == << >>

Absent == [kind |-> "none", mode |-> 0, data |-> 0, text |-> EmptyString]
HostDir(m) == [kind |-> "dir", mode |-> m, data |-> 0, text |-> EmptyString]
HostFile(m, d) == [kind |-> "file", mode |-> m, data |-> d, text |-> EmptyString]
HostLink(t) == [kind |-> "link", mode |-> 511, data |-> 0, text |-> t]

\* modes a creating call gives under the process umask 022
DefaultDirMode == 493
DefaultFileMode == 420
PermissionMask == 4096

EmptyHost == [p \in HostPaths |-> Absent]
HostInits ==
    { EmptyHost,
      [EmptyHost EXCEPT ![<<"o">>] = HostDir(DefaultDirMode),
                        ![<<"o", Slash, "x">>] = HostFile(384, 1),
                        ![<<"b">>] = HostFile(384, 2)],
      [EmptyHost EXCEPT ![<<"o">>] = HostDir(DefaultDirMode),
                        ![<<"o", Slash, "x">>] = HostLink(<<"y">>),
                        ![<<"d">>] = HostDir(DefaultDirMode)],
      [EmptyHost EXCEPT ![<<"o">>] = HostDir(DefaultDirMode),
                        ![<<"o", Slash, "x">>] = HostDir(448)],
      [EmptyHost EXCEPT ![<<"o">>] = HostFile(384, 3)] }

\* boost::filesystem::path::parent_path
parent_path(p) == NameRemove(p)

\* the path a name resolves to when its last component's symlinks are
\* followed; NoPath when the chain leaves the universe or is too long
RECURSIVE Follow(_, _, _)
Follow(h, p, fuel) ==
    IF p \notin HostPaths THEN NoPath
    ELSE IF h[p].kind # "link" THEN p
    ELSE IF fuel = 0 \/ h[p].text = << >> \/ Head(h[p].text) = Slash THEN NoPath
    ELSE Follow(h, NameAdd(parent_path(p), h[p].text), fuel - 1)

KindAt(h, p) ==
    LET q == Follow(h, p, MaxHostLinks) IN IF q = NoPath THEN "none" ELSE h[q].kind

\* the directory a path lies in exists
ParentIsDir(h, p) == parent_path(p) = << >> \/ KindAt(h, parent_path(p)) = "dir"

\* access(p, F_OK) = 0
access_ok(h, p) == ParentIsDir(h, p) /\ KindAt(h, p) # "none"

\* mkdir(p, mode): [ok, host]
mkdir(h, p, m) ==
    IF p \notin HostPaths \/ h[p].kind # "none" \/ ~ParentIsDir(h, p)
    THEN [ok |-> FALSE, host |-> h]
    ELSE [ok |-> TRUE, host |-> [h EXCEPT ![p] = HostDir(m)]]

\* boost::filesystem::create_directories(p): [ok, host]; not ok is a throw
create_directories(h, p) ==
    IF p = << >> THEN [ok |-> TRUE, host |-> h]
    ELSE IF KindAt(h, p) = "dir" THEN [ok |-> TRUE, host |-> h]
    ELSE mkdir(h, p, DefaultDirMode)

\* std::ofstream(p) << content; close(): open truncating, write: [ok, host]
ofstream_write(h, p, content) ==
    LET q == Follow(h, p, MaxHostLinks)
    IN  IF q = NoPath \/ ~ParentIsDir(h, q) \/ h[q].kind = "dir"
        THEN [ok |-> FALSE, host |-> h]
        ELSE [ok |-> TRUE,
              host |-> [h EXCEPT ![q] =
                          HostFile(IF h[q].kind = "file" THEN h[q].mode ELSE DefaultFileMode,
                                   content)]]

\* chmod(p, mode): [ok, host]
chmod(h, p, m) ==
    LET q == Follow(h, p, MaxHostLinks)
    IN  IF q = NoPath \/ h[q].kind = "none" \/ ~ParentIsDir(h, q)
        THEN [ok |-> FALSE, host |-> h]
        ELSE [ok |-> TRUE, host |-> [h EXCEPT ![q].mode = m % PermissionMask]]

\* unlink(p): [ret, errno, host]
unlink(h, p) ==
    IF p \notin HostPaths \/ h[p].kind = "none" \/ ~ParentIsDir(h, p)
    THEN [ret |-> -1, errno |-> "ENOENT", host |-> h]
    ELSE IF h[p].kind = "dir"
    THEN [ret |-> -1, errno |-> "EISDIR", host |-> h]
    ELSE [ret |-> 0, errno |-> "", host |-> [h EXCEPT ![p] = Absent]]

\* symlink(text, p): [ret, host]
symlink(h, text, p) ==
    IF p \notin HostPaths \/ h[p].kind # "none" \/ ~ParentIsDir(h, p)
    THEN [ret |-> -1, host |-> h]
    ELSE [ret |-> 0, host |-> [h EXCEPT ![p] = HostLink(text)]]

(***************************************************************************)
(* extract(target)                                                         *)
(***************************************************************************)
\* extractDir: [thrown, what, host]
extractDir(i, h, target) ==
    IF access_ok(h, target) THEN [thrown |-> NoThrow, what |-> "", host |-> h]
    ELSE LET made == mkdir(h, target, DefaultDirMode)
         IN  IF ~made.ok
             THEN [thrown |-> IF i = TraversalType2 THEN "FileSystemError" ELSE "AppImageError",
                   what |-> "mkdir error", host |-> h]
             ELSE [thrown |-> NoThrow, what |-> "", host |-> made.host]

\* TraversalType2::extractSymlink: unlinks the path named by the link text
TraversalType2_extractSymlink(h, link, target) ==
    LET gone == unlink(h, link)
        made == symlink(gone.host, link, target)
    IN  IF gone.ret # 0 /\ gone.errno # "ENOENT"
        THEN [thrown |-> "IOError", what |-> "unlink error", host |-> h]
        ELSE IF made.ret # 0
        THEN [thrown |-> "IOError", what |-> "symlink error", host |-> gone.host]
        ELSE [thrown |-> NoThrow, what |-> "", host |-> made.host]

\* traversal_type_2::extractSymlink: reads the text from the inode, unlinks
\* the target without looking at the result
traversal_type_2_extractSymlink(h, inode, target) ==
    LET q == sqfs_readlink_size(inode)
        f == sqfs_readlink_fill(inode, q.size)
        gone == unlink(h, target)
        made == symlink(gone.host, CString(f.buf), target)
    IN  IF f.err # SQFS_OK
        THEN [thrown |-> "AppImageReadError", what |-> "sqfs_readlink error", host |-> h]
        ELSE IF made.ret # 0
        THEN [thrown |-> "AppImageReadError", what |-> "symlink error", host |-> gone.host]
        ELSE [thrown |-> NoThrow, what |-> "", host |-> made.host]

extractSymlink(i, h, inode, link, target) ==
    IF i = TraversalType2 THEN TraversalType2_extractSymlink(h, link, target)
    ELSE traversal_type_2_extractSymlink(h, inode, target)

\* the rest of extractFile once read() has returned: write, close, chmod
extractFile_write(h, inode, content, target) ==
    chmod(ofstream_write(h, target, content).host, target, inode.mode).host

\* the bytes a stream over an inode yields
StreamData(inode) == IF IsRegTag(inode.inode_type) THEN inode.data ELSE 0

\* the switch of extract() on inode.base.inode_type
extractBranch(tag) ==
    IF IsDirTag(tag) THEN "extractDir"
    ELSE IF IsRegTag(tag) THEN "extractFile"
    ELSE IF IsSymlinkTag(tag) THEN "extractSymlink"
    ELSE "default"

Extract_call ==
    /\ pc = "idle"
    /\ \E target \in Targets, id \in EntryInodeIds(image, trv) :
         LET got == sqfs_inode_get(image, id)
             dirs == create_directories(host, parent_path(target))
             tag == got.inode.inode_type
         IN  IF got.err # SQFS_OK
             THEN /\ ret' = Threw("extract", ReadErrorOf(impl), "sqfs_inode_get error")
                  /\ UNCHANGED <<host, pc, frame, currentInode>>
             ELSE IF ~dirs.ok
             THEN /\ ret' = Threw("extract", "filesystem_error", "create_directories")
                  /\ UNCHANGED <<host, pc, frame, currentInode>>
             ELSE IF extractBranch(tag) = "extractDir"
             THEN LET r == extractDir(impl, dirs.host, target)
                  IN  /\ host' = r.host
                      /\ ret' = IF r.thrown = NoThrow THEN Returned("extract", target)
                                ELSE Threw("extract", r.thrown, r.what)
                      /\ UNCHANGED <<pc, frame, currentInode>>
             ELSE IF extractBranch(tag) = "extractFile"
             THEN /\ host' = dirs.host
                  /\ read_enter("extract", "extractFile", target, got.inode)
             ELSE IF extractBranch(tag) = "extractSymlink"
             THEN LET r == extractSymlink(impl, dirs.host, got.inode, currentEntryLink, target)
                  IN  /\ host' = r.host
                      /\ ret' = IF r.thrown = NoThrow THEN Returned("extract", target)
                                ELSE Threw("extract", r.thrown, r.what)
                      /\ UNCHANGED <<pc, frame, currentInode>>
             ELSE /\ host' = dirs.host
                  /\ ret' = Threw("extract", "AppImageError", "inode_type not supported yet")
                  /\ UNCHANGED <<pc, frame, currentInode>>
    /\ UNCHANGED <<impl, image, fs, trvOpen, trv, rootInodeId, completed,
                   currentEntryType, currentEntryPath, currentEntryLink,
                   entryStreamBuf, visits, reads>>

\* resolveSymlink returns true: read() makes the stream and returns it, and
\* extractFile goes on to write the target
Resolve_return ==
    /\ pc = "resolving"
    /\ ~IsSymlinkTag(Resolving.inode_type)
    /\ pc' = "idle"
    /\ frame' = NoFrame
    /\ entryStreamBuf' = NewStream(entryStreamBuf, Resolving)
    /\ IF frame.fn = "read"
       THEN /\ ret' = Returned("read", Resolving.inode_number)
            /\ host' = host
       ELSE /\ ret' = Returned("extract", frame.target)
            /\ host' = extractFile_write(host, frame.xinode, StreamData(Resolving),
                                         frame.target)
    /\ UNCHANGED <<impl, image, fs, trvOpen, trv, rootInodeId, completed, currentInode,
                   currentEntryType, currentEntryPath, currentEntryLink, visits>>
    /\ LogRead

(***************************************************************************)
(* The system                                                              *)
(***************************************************************************)
Init ==
    /\ impl \in {TraversalType2, traversal_type_2}
    /\ image \in Images
    /\ host \in HostInits
    /\ pc = "start"
    /\ fs = "unopened"
    /\ trvOpen = "unopened"
    /\ trv = NoTrv
    /\ rootInodeId = 0
    /\ completed = FALSE
    /\ currentInode = Indeterminate
    /\ currentEntryType = UNKNOWN
    /\ currentEntryPath = EmptyString
    /\ currentEntryLink = EmptyString
    /\ entryStreamBuf = NoStream
    /\ frame = NoFrame
    /\ ret = Returned("none", << >>)
    /\ visits = << >>
    /\ reads = NoReads

Next ==
    \/ TraversalType2_ctor
    \/ traversal_type_2_ctor
    \/ Destructor
    \/ Next_call
    \/ IsCompleted_call
    \/ GetEntryPath_call
    \/ GetEntryType_call
    \/ GetEntryLinkTarget_call
    \/ Read_call
    \/ Resolve_iterate
    \/ Resolve_return
    \/ Extract_call

Spec == Init /\ [][Next]_vars

(***************************************************************************)
(* Properties                                                              *)
(***************************************************************************)
RootInode == sqfs_inode_get(image, image.root).inode

\* the cursor has read an entry, and inode id k of the image is its inode
EntryFilled == trv.entry.name # << >>
EntryInode == sqfs_inode_get(image, trv.entry.inode)

\* the inode the text of symlink inode leads to, looked up from the root
LinkTarget(img, inode) ==
    sqfs_lookup_path(img, sqfs_inode_get(img, img.root).inode, inode.text)

\* C1: a resolution whose chain reaches an inode number it has already seen
\* fails with the loop error (PayloadIteratorError).
C1_LoopFailsWithLoopError ==
    [][ ( /\ pc = "resolving"
          /\ IsSymlinkTag(Resolving.inode_type)
          /\ Resolving.bad = "none"
          /\ LinkTarget(image, Resolving).found
          /\ LinkTarget(image, Resolving).err = SQFS_OK
          /\ LinkTarget(image, Resolving).inode.inode_number \in frame.inodesVisited )
        => ( pc' = "idle" /\ ret'.thrown = LoopErrorKind ) ]_vars

\* C2: every iteration of the resolution loop that does not end the call adds
\* one new inode number to the visited set, so the iterations done never
\* exceed the inodes of the image.
C2_IterationsBounded ==
    pc = "resolving" =>
        /\ Cardinality(frame.inodesVisited) = frame.iterations + 1
        /\ Cardinality(frame.inodesVisited) <= Len(image.inodes)
        /\ Resolving.inode_number \in frame.inodesVisited

C2_Witness ==
    /\ impl = TraversalType2
    /\ pc = "resolving"
    /\ frame.iterations = MaxChain
    /\ IsRegTag(Resolving.inode_type)

\* the regular file an acyclic chain of existing link targets ends in: its
\* inode number, or 0 when the chain from inode is no such chain (a cycle, a
\* missing or unreadable target, an end that is no regular file)
RECURSIVE ChainEnd(_, _, _)
ChainEnd(img, inode, seen) ==
    IF IsRegTag(inode.inode_type) THEN inode.inode_number
    ELSE IF ~IsSymlinkTag(inode.inode_type) \/ inode.bad # "none" THEN 0
    ELSE LET t == LinkTarget(img, inode)
         IN  IF ~t.found \/ t.err # SQFS_OK \/ t.inode.inode_number \in seen THEN 0
             ELSE ChainEnd(img, t.inode, seen \cup {t.inode.inode_number})

EntryChainEnd ==
    IF EntryInode.err # SQFS_OK THEN 0
    ELSE ChainEnd(image, EntryInode.inode, {EntryInode.inode.inode_number})

\* C3: read() on an entry that starts an acyclic chain of symlinks whose
\* targets all exist and that ends in a regular file returns a stream over
\* that file's inode; it does not fail.
C3_AcyclicChainResolves ==
    ( pc = "idle" /\ ret.op = "read" /\ EntryFilled /\ EntryChainEnd # 0 )
    => ( ret.thrown = NoThrow /\ ret.value = EntryChainEnd )

C3_Witness ==
    /\ impl = TraversalType2
    /\ image = ChainImage(MaxChain)
    /\ pc = "idle" /\ ret.op = "read" /\ ret.thrown = NoThrow
    /\ trv.entry.inode = 2
    /\ ret.value = 100 + MaxChain + 1

\* the first entry of the image: the first entry of the root directory
HasEntries == RootInode.entries # << >>
FirstEntry == RootInode.entries[1]

\* C4: a traversal the constructor returns is completed or has the first
\* entry of the image as its current entry.
C4_OpenedNeverUnstarted ==
    ( pc = "idle" /\ ret.op = "open" )
    => \/ completed
       \/ /\ HasEntries
          /\ trv.entry = FirstEntry
          /\ getEntryPath = FirstEntry.name
          /\ impl = TraversalType2 =>
                /\ currentInode = sqfs_inode_get(image, FirstEntry.inode).inode
                /\ currentEntryType = readEntryType(trv)

\* C5: whenever the traversal is completed, however it got there, the path
\* is empty, the type is Unknown and the link target is empty.
C5_CompletedIsCleared ==
    ( impl = TraversalType2 /\ pc = "idle" /\ completed )
    => /\ currentEntryPath = EmptyString
       /\ currentEntryType = UNKNOWN
       /\ currentEntryLink = EmptyString

\* C6: once completed, the traversal stays completed through every later
\* next(), read(), extract() and accessor call.
C6_CompletedIsAbsorbing == [][completed => completed']_vars

C6_Witness ==
    /\ impl = TraversalType2 /\ pc = "idle" /\ completed
    /\ ret.op = "next" /\ ret.thrown = NoThrow
    /\ trv.state = "FINISHED" /\ visits # << >>
    /\ entryStreamBuf.live = 1

EntryAccessors == {"getEntryPath", "getEntryType", "getEntryLinkTarget"}

RegularTags == {SQUASHFS_REG_TYPE, SQUASHFS_LREG_TYPE}
LinkTags == {SQUASHFS_SYMLINK_TYPE, SQUASHFS_LSYMLINK_TYPE}
DirectoryTags == {SQUASHFS_DIR_TYPE, SQUASHFS_LDIR_TYPE}
Classified(dir_end, tag) ==
    CASE dir_end -> DIR
      [] tag \in RegularTags -> REGULAR
      [] tag \in LinkTags -> LINK
      [] tag \in DirectoryTags -> DIR
      [] OTHER -> UNKNOWN

\* next() (the constructor's too) has stored the type of the cursor's position
TypeStored ==
    /\ impl = TraversalType2 /\ pc = "idle" /\ ~completed
    /\ ret.op \in {"open", "next"}
    /\ ret.thrown = NoThrow \/ ret.what = "sqfs_readlink error"

\* C8: the type next() reports for a cursor position is Directory at an
\* end-of-directory marker, otherwise the one of the position's type tag,
\* Unknown for every tag but the regular, symlink and directory ones; and a
\* link target is stored only with type Link.
C8_EntryTypeClassified ==
    /\ TypeStored => currentEntryType = Classified(trv.dir_end, trv.entry.type)
    /\ ( impl = TraversalType2 /\ currentEntryLink # EmptyString )
          => currentEntryType = LINK

C8_Witness ==
    /\ TypeStored
    /\ trv.dir_end /\ ~IsDirTag(trv.entry.type)
    /\ currentEntryType = DIR

\* the visits a depth-first walk of the image owes: every entry under its
\* path, a directory once more, as Directory, after its last descendant
RECURSIVE EntriesVisits(_, _, _)
EntriesVisits(img, ents, prefix) ==
    IF ents = << >> THEN << >>
    ELSE LET e == Head(ents)
             p == NameAdd(prefix, e.name)
             ty == Classified(FALSE, e.type)
         IN  <<[path |-> p, type |-> ty]>>
             \o (IF ty = DIR
                 THEN EntriesVisits(img, img.inodes[e.inode].entries, p)
                      \o <<[path |-> p, type |-> DIR]>>
                 ELSE << >>)
             \o EntriesVisits(img, Tail(ents), prefix)

ExpectedVisits(img) == EntriesVisits(img, img.inodes[img.root].entries, EmptyString)

IsPrefix(a, b) == Len(a) <= Len(b) /\ SubSeq(b, 1, Len(a)) = a

\* nothing in the image is unreadable
Readable(img) ==
    /\ img.openable /\ img.offset >= 0
    /\ \A k \in InodeIds(img) : img.inodes[k].bad = "none"

Scanning == impl = TraversalType2 /\ Readable(image) /\ pc \notin {"start", "dead"}

C9_VisitsInOrder ==
    Scanning =>
        /\ IsPrefix(visits, ExpectedVisits(image))
        /\ completed => visits = ExpectedVisits(image)
        /\ ~completed =>
              /\ visits # << >>
              /\ visits[Len(visits)] = [path |-> currentEntryPath, type |-> currentEntryType]

C9_NextAdvances ==
    ( Scanning /\ pc = "idle" /\ ~completed /\ ret'.op = "next" )
    => /\ ret'.thrown = NoThrow
       /\ completed' \/ Len(visits') = Len(visits) + 1

\* C9: on a readable image the entries next() makes current, from the
\* constructor on, are those of the depth-first walk in its order: every
\* non-directory entry once, a directory as its descent and its leaving
\* marker, both typed Directory under the directory's path; every next()
\* before completion adds one of them or completes, so the traversal is
\* completed after as many calls as the walk has visits.
C9_DepthFirstExactlyOnce == []C9_VisitsInOrder /\ [][C9_NextAdvances]_vars

C9_Witness ==
    /\ impl = TraversalType2 /\ image = MixedImage
    /\ completed /\ pc = "idle"
    /\ Len(visits) = 8
    /\ visits[3] = [path |-> <<"d", Slash, "e">>, type |-> DIR]
    /\ visits[4] = [path |-> <<"d", Slash, "f">>, type |-> UNKNOWN]
    /\ visits[5] = [path |-> <<"d">>, type |-> DIR]

\* C11: between calls the traversal has at most one content stream buffer
\* alive, the one of the stream the latest successful read() (extract()'s
\* own read() for a Regular entry included) returned; the buffer of the
\* stream before it has been released.
C11_OneLiveStreamBuffer ==
    /\ entryStreamBuf.live <= 1
    /\ entryStreamBuf.live = 1 <=> entryStreamBuf # NoStream
    /\ ( pc = "idle" /\ ret.op = "read" /\ ret.thrown = NoThrow )
          => ( entryStreamBuf.live = 1 /\ entryStreamBuf.src = ret.value )

\* a read() returned a stream, then extract() of the same Regular entry made
\* another
C11_Witness ==
    /\ impl = TraversalType2 /\ pc = "idle"
    /\ currentEntryType = REGULAR
    /\ reads.first.thrown = NoThrow
    /\ ret.op = "extract" /\ ret.thrown = NoThrow
    /\ entryStreamBuf.live = 1
    /\ entryStreamBuf.src = currentInode.inode_number

\* C10: read(), extract() and the accessors leave the current-entry snapshot
\* (path, type, inode, link target) and the completed flag as they are; only
\* next() changes them.
C10_OnlyNextChangesSnapshot ==
    [][ ( /\ impl = TraversalType2
          /\ pc \in {"idle", "resolving"}
          /\ currentInode # Indeterminate
          /\ ret'.op # "next" )
        => UNCHANGED <<currentInode, currentEntryType, currentEntryPath,
                       currentEntryLink, completed>> ]_vars

\* the cursor stands on an entry of the image (not on a leaving marker, not
\* past the end) whose inode can be read
AtEntry ==
    /\ pc = "idle" /\ ~completed /\ EntryFilled /\ ~trv.dir_end
    /\ trv.state # "ERROR"
    /\ EntryInode.err = SQFS_OK /\ EntryInode.inode.bad = "none"

AtLinkEntry == AtEntry /\ IsSymlinkTag(EntryInode.inode.inode_type)

\* C12: extract(P) of a Link entry, P free or holding a file or a link and
\* its parent creatable, returns and leaves at P a symbolic link whose text
\* is the link text stored in the image.
C12_LinkExtractedLiterally ==
    [][ \A target \in Targets :
          ( /\ AtLinkEntry
            /\ create_directories(host, parent_path(target)).ok
            /\ host[target].kind \in {"none", "file", "link"}
            /\ ret'.op = "extract" )
          => ( /\ ret'.thrown = NoThrow
               /\ host'[target] = HostLink(EntryInode.inode.text) ) ]_vars

\* the traversal reports a Directory: a descent visit or a leaving marker
AtDirectory ==
    /\ impl = TraversalType2 /\ ~completed /\ EntryFilled
    /\ trv.state # "ERROR"
    /\ currentEntryType = DIR
    /\ readEntryType(trv) = DIR

\* a step that ends an extract() call
ExtractEnds == pc \in {"idle", "resolving"} /\ ret'.op = "extract" /\ ret'.thrown # "pending"

\* C13: extract(P) at a Directory visit, P free or already a directory and
\* its parent creatable, returns; a free P becomes a directory of mode 0755
\* and a directory at P stays as it is.  So the second of two extractions
\* finds the directory of the first and neither fails.
C13_DirExtractIdempotent ==
    [][ \A target \in Targets :
          ( /\ AtDirectory /\ ExtractEnds
            /\ create_directories(host, parent_path(target)).ok
            /\ host[target].kind \in {"none", "dir"} )
          => ( /\ ret'.thrown = NoThrow
               /\ host[target].kind = "none" => host'[target] = HostDir(DefaultDirMode)
               /\ host[target].kind = "dir" => host'[target] = host[target] ) ]_vars

\* the traversal's current entry is a regular file of the image
AtRegularEntry ==
    /\ impl = TraversalType2 /\ ~completed /\ EntryFilled /\ ~trv.dir_end
    /\ trv.state # "ERROR"
    /\ EntryInode.err = SQFS_OK /\ EntryInode.inode.bad = "none"
    /\ IsRegTag(EntryInode.inode.inode_type)

\* what stat(p) and reading p see: the node p names, symlinks followed
StatAt(h, p) ==
    LET q == Follow(h, p, MaxHostLinks) IN IF q = NoPath THEN Absent ELSE h[q]

\* C14: when extract(P) of a Regular entry returns without error, P names a
\* file holding the entry's content bytes, with the inode's permission bits.
C14_FileExtractedExactly ==
    [][ \A target \in Targets :
          ( AtRegularEntry /\ ExtractEnds /\ ret'.thrown = NoThrow )
          => StatAt(host', target) =
                HostFile(EntryInode.inode.mode % PermissionMask, EntryInode.inode.data) ]_vars

\* the host calls of extractFile (open and write through the ofstream, then
\* chmod) all succeed on host h
ExtractFileCallsOk(h, inode, content, target) ==
    /\ ofstream_write(h, target, content).ok
    /\ chmod(ofstream_write(h, target, content).host, target, inode.mode).ok

\* the host calls of extractSymlink all succeed on host h, a path that did
\* not exist counting as removed
ExtractSymlinkCallsOk(i, h, link, target) ==
    LET gone == unlink(h, IF i = TraversalType2 THEN link ELSE target)
    IN  /\ gone.ret = 0 \/ gone.errno = "ENOENT"
        /\ symlink(gone.host, link, target).ret = 0

\* C15: extract() returns normally only when every image-library and host
\* call it made succeeded.
C15_NoFailureSwallowed ==
    [][ ( ExtractEnds /\ ret'.thrown = NoThrow )
        => /\ ( pc = "resolving" )
                => ExtractFileCallsOk(host, frame.xinode, StreamData(Resolving), frame.target)
           /\ ( pc = "idle" /\ EntryFilled /\ EntryInode.err = SQFS_OK
                     /\ IsSymlinkTag(EntryInode.inode.inode_type) )
                => \A target \in Targets :
                     /\ impl = traversal_type_2 =>
                           sqfs_readlink_fill(EntryInode.inode,
                               sqfs_readlink_size(EntryInode.inode).size).err = SQFS_OK
                     /\ ExtractSymlinkCallsOk(impl,
                            create_directories(host, parent_path(target)).host,
                            IF impl = TraversalType2 THEN currentEntryLink
                            ELSE EntryInode.inode.text,
                            target) ]_vars

\* the branch of extract() that belongs to a reported entry type
BranchFor(type) ==
    CASE type = DIR -> "extractDir"
      [] type = REGULAR -> "extractFile"
      [] type = LINK -> "extractSymlink"
      [] OTHER -> "default"

\* the type the traversal reports is the one of the cursor's position
AtPosition ==
    /\ impl = TraversalType2 /\ pc = "idle" /\ ~completed /\ EntryFilled
    /\ trv.state # "ERROR"
    /\ currentEntryType = readEntryType(trv)

\* C16: at every cursor position extract() takes the branch of the type
\* getEntryType() returns there: extractDir for Directory (leaving marker
\* included), extractFile for Regular, extractSymlink for Link, the
\* unsupported-type error for Unknown.
C16_ExtractFollowsReportedType ==
    [][ ( AtPosition /\ ret'.op = "extract" /\ EntryInode.err = SQFS_OK )
        => /\ extractBranch(EntryInode.inode.inode_type) = BranchFor(getEntryType)
           /\ ( /\ getEntryType = UNKNOWN
                /\ \A target \in Targets : create_directories(host, parent_path(target)).ok )
                => ret'.thrown = "AppImageError" ]_vars

\* the current-entry fields, and what they are when all four are derived
\* from cursor position t
Snapshot == <<currentInode, currentEntryType, currentEntryPath, currentEntryLink>>
SnapshotOf(img, t) ==
    LET inode == readInode(img, t.entry.inode).inode
    IN  <<inode, readEntryType(t), readEntryName(t),
          IF readEntryType(t) = LINK THEN readEntryLink(inode).link ELSE EmptyString>>

\* C17: a next() call (that of a constructor that returns, too) leaves the
\* four fields either all as they were, or all those of the cursor's new
\* position, or cleared on completion; a failing call leaves them all as
\* they were.
C17_EntryReplacedWholesale ==
    [][ ( /\ impl = TraversalType2
          /\ ret'.op = "next" \/ (ret'.op = "open" /\ ret'.thrown = NoThrow) )
        => \/ Snapshot' = Snapshot
           \/ /\ ret'.thrown = NoThrow /\ ~completed'
              /\ Snapshot' = SnapshotOf(image, trv')
           \/ /\ ret'.thrown = NoThrow /\ completed'
              /\ Snapshot' = <<currentInode, UNKNOWN, EmptyString, EmptyString>> ]_vars

\* the directories above a path
RECURSIVE ParentChain(_)
ParentChain(p) ==
    IF parent_path(p) = << >> THEN {}
    ELSE {parent_path(p)} \cup ParentChain(parent_path(p))

\* C18: a step of extract(target) changes the host at target only, and at
\* the directories above target only by creating the missing ones.
C18_ExtractTouchesOnlyTarget ==
    [][ impl = TraversalType2 =>
          \A target \in Targets, p \in HostPaths :
             /\ p \notin ({target} \cup ParentChain(target)) => host'[p] = host[p]
             /\ p \in ParentChain(target) =>
                   \/ host'[p] = host[p]
                   \/ host[p].kind = "none" /\ host'[p].kind = "dir" ]_vars

\* two calls ended the same way: the same error kind, or a stream over the
\* same inode
SameOutcome(a, b) ==
    /\ a.thrown = b.thrown
    /\ a.thrown = NoThrow => a.value = b.value

\* C19: every read() of the current entry ends as the first read() of that
\* entry did.
C19_ReadRepeatable ==
    ( impl = TraversalType2 /\ reads.again ) => SameOutcome(reads.first, reads.last)

\* C20: once the traversal is gone (destroyed, or its constructor failed) no
\* image session and no cursor it opened is still open, and the destructor
\* closes the cursor before the session.
C20_ResourcesReleased ==
    /\ pc \in {"dead", "destroyed"} => ( fs # "open" /\ trvOpen # "open" )
    /\ pc = "destroyed" => ( ret.op = "destroy" /\ ret.value = <<"trv", "fs">> )

====
